---- MODULE Spec2Model ----
(***************************************************************************)
(* Model of proxy.py: a relay between a Joy-Con (the peripheral) and a     *)
(* Switch (the host).  The session runs Handshake, then the main proxy     *)
(* loop, then the except/finally blocks.  With --nfc-data the loop spoofs  *)
(* the answers of the NFC/IR MCU from an emulated IrNfcMcu.                *)
(*                                                                         *)
(* A frame is a record of the bytes the program reads or writes: b1, b2,   *)
(* b3, b14, b15 of a peripheral frame, bytes 16..49 as `body' and the      *)
(* bytes from offset 50 as `ext'; b1, b11 .. b14 of a host frame.  All     *)
(* frames are long enough for the offsets the program indexes.             *)
(***************************************************************************)
EXTENDS Integers, Sequences, FiniteSets, TLC

VARIABLES pc, i, nfc_data, reply, jc_data, last_output_report, mcu,
          timer_old, timer_counter, exc, closed, input_plugin,
          messages_txt, exit_status,
          jc_raw, host_sent, jc_sent, events, mcu_iter, read_polls, bad_id_sent

vars == <<pc, i, nfc_data, reply, jc_data, last_output_report, mcu,
          timer_old, timer_counter, exc, closed, input_plugin,
          messages_txt, exit_status,
          jc_raw, host_sent, jc_sent, events, mcu_iter, read_polls, bad_id_sent>>

\* jc_raw, host_sent, jc_sent and events are history variables: the frame as
\* it was read from the peripheral, the frames sent on each channel and the
\* steps taken, all since the start of the current loop iteration (since the
\* start of the run during the handshake).  mcu_iter is the MCU as it was when
\* the iteration began, read_polls the number of NFC/IR mode reports answered
\* since the action last became READ_TAG, bad_id_sent whether the host has
\* sent a SET_NFC_IR_MCU_STATE request with an id other than 0x00 and 0x01.
chan == <<jc_raw, host_sent, jc_sent, events>>
ghost == <<mcu_iter, read_polls, bad_id_sent>>
hist == <<chan, ghost>>
teardown == <<exc, closed, input_plugin, messages_txt, exit_status>>
timer == <<timer_old, timer_counter>>

----------------------------------------------------------------------------
\* Bounds of the model.

\* Largest tag image, counted in the chunks one NFC report carries.
MaxChunks == 2

\* The timer specification reads no further peripheral frame once the timer
\* counter has reached this value.
MaxTimerCounter == 300

\* nfc_data when --nfc-data is absent (None).
NoNfcData == -1

----------------------------------------------------------------------------
\* Frames.

None == [src |-> "none"]

\* Host frames: byte 1 is the report id, byte 11 the subcommand, bytes 12..14
\* its arguments.
McuSubcommandFrames ==
    {[src |-> "host", b1 |-> 17, b11 |-> 1, b12 |-> 0, b13 |-> 0, b14 |-> 0]}
    \cup {[src |-> "host", b1 |-> 17, b11 |-> 2, b12 |-> a, b13 |-> 0, b14 |-> 0] :
             a \in {1, 2, 4, 6, 7}}
    \cup {[src |-> "host", b1 |-> 17, b11 |-> 3, b12 |-> 0, b13 |-> 0, b14 |-> 0]}

ConfigRequestFrames ==
    {[src |-> "host", b1 |-> 1, b11 |-> 33, b12 |-> 33, b13 |-> c[1], b14 |-> c[2]] :
         c \in {<<0, 0>>, <<0, 4>>, <<0, 5>>, <<1, 0>>}}

StateRequestFrames ==
    {[src |-> "host", b1 |-> 1, b11 |-> 34, b12 |-> a, b13 |-> 0, b14 |-> 0] :
         a \in {0, 1, 2}}

OtherHostFrames ==
    {[src |-> "host", b1 |-> 1, b11 |-> 48, b12 |-> 1, b13 |-> 0, b14 |-> 0],
     [src |-> "host", b1 |-> 16, b11 |-> 0, b12 |-> 0, b13 |-> 0, b14 |-> 0]}

HostFrames == McuSubcommandFrames \cup ConfigRequestFrames
              \cup StateRequestFrames \cup OtherHostFrames

\* Values of the peripheral's 8-bit timer byte (byte 2) that occur.
JcTimerBytes == {0}

\* Peripheral frames: byte 1 is the report id, byte 2 the timer, bytes 14/15
\* the MCU markers.
JcFrames ==
    {[src |-> "jc", b1 |-> r, b2 |-> t, b3 |-> 0, b14 |-> m[1], b15 |-> m[2],
      body |-> [orig |-> TRUE], ext |-> [orig |-> TRUE]] :
         r \in {33, 48, 49}, t \in JcTimerBytes,
         m \in {<<160, 33>>, <<128, 34>>, <<0, 0>>}}

\* Timer bytes of the timer specification: every 8-bit value.
TimerBytes == 0 .. 255

\* Plain input reports (0x30, no MCU markers) carrying those timer bytes.
TimerJcFrames ==
    {[src |-> "jc", b1 |-> 48, b2 |-> t, b3 |-> 0, b14 |-> 0, b15 |-> 0,
      body |-> [orig |-> TRUE], ext |-> [orig |-> TRUE]] : t \in TimerBytes}

----------------------------------------------------------------------------
\* The emulated MCU (ir_nfc_mcu.IrNfcMcu).

McuStates == {"STAND_BY", "NFC"}
ReadActions == {"READ_TAG", "READ_TAG_2", "READ_FINISHED"}
Actions == {"NON", "REQUEST_STATUS", "START_TAG_DISCOVERY", "START_TAG_POLLING"}
           \cup ReadActions

IrNfcMcu == [operating_state |-> "STAND_BY", current_action |-> "NON", progress |-> 0]

set_nfc(m, data) == [m EXCEPT !.progress = 0]
set_action(m, a) == [m EXCEPT !.current_action = a]
set_state(m, s) == [m EXCEPT !.operating_state = s]
get_action(m) == m.current_action

\* The bytes of the MCU: the state, the action and the chunk of the tag image
\* that the last update put into them.
bytes_mcu(m, chunk) ==
    [operating_state |-> m.operating_state, current_action |-> m.current_action,
     chunk |-> chunk]

\* update_status() refreshes the status bytes; state and action stay.
update_status(m) == m

\* update_nfc_report(): while READ_TAG each poll emits the next chunk of the
\* tag image and advances the progress counter; when all chunks are out the
\* action goes to READ_TAG_2, the poll after that to READ_FINISHED, where it
\* holds.  Returns the MCU and the chunk emitted (0: none).
update_nfc_report(m, data) ==
    IF m.current_action = "READ_TAG"
    THEN IF m.progress + 1 >= data
         THEN [mcu |-> [m EXCEPT !.current_action = "READ_TAG_2", !.progress = 0],
               chunk |-> m.progress + 1]
         ELSE [mcu |-> [m EXCEPT !.progress = m.progress + 1],
               chunk |-> m.progress + 1]
    ELSE IF m.current_action = "READ_TAG_2"
    THEN [mcu |-> [m EXCEPT !.current_action = "READ_FINISHED"], chunk |-> 0]
    ELSE [mcu |-> m, chunk |-> 0]

----------------------------------------------------------------------------
\* command_set_nfc_ir_mcu_config and command_set_nfc_ir_mcu_state.  Each
\* returns the MCU after the call, the report it built and the exception it
\* raised ("" when it returned).

\* Variant: the status block is copied after the config argument is applied.
command_set_nfc_ir_mcu_config_StatusAfter(m, report, output_report) ==
    LET m1 == update_status(m)
        m2 == IF output_report = None \/ output_report.b13 # 0 THEN m1
              ELSE IF output_report.b14 = 0 THEN set_state(m1, "STAND_BY")
              ELSE IF output_report.b14 = 4 THEN set_state(m1, "NFC")
              ELSE m1
        rep == [report EXCEPT !.b1 = 33, !.b3 = 142, !.b14 = 160, !.b15 = 33,
                              !.body = bytes_mcu(m2, 0)]
    IN  [mcu |-> m2, report |-> rep,
         exc |-> IF output_report = None THEN "TypeError" ELSE ""]

\* Variant: an unknown config argument raises, as an unknown state id does.
command_set_nfc_ir_mcu_config_Raises(m, report, output_report) ==
    LET m1 == update_status(m)
        rep == [report EXCEPT !.b1 = 33, !.b3 = 142, !.b14 = 160, !.b15 = 33,
                              !.body = bytes_mcu(m1, 0)]
    IN  IF output_report = None
        THEN [mcu |-> m1, report |-> rep, exc |-> "TypeError"]
        ELSE IF output_report.b13 = 0 /\ output_report.b14 = 0
        THEN [mcu |-> set_state(m1, "STAND_BY"), report |-> rep, exc |-> ""]
        ELSE IF output_report.b13 = 0 /\ output_report.b14 = 4
        THEN [mcu |-> set_state(m1, "NFC"), report |-> rep, exc |-> ""]
        ELSE [mcu |-> m1, report |-> rep, exc |-> "NotImplementedError"]

command_set_nfc_ir_mcu_config(m, report, output_report) ==
    LET m1 == update_status(m)
        rep == [report EXCEPT !.b1 = 33, !.b3 = 142, !.b14 = 160, !.b15 = 33,
                              !.body = bytes_mcu(m1, 0)]
    IN  IF output_report = None
        THEN [mcu |-> m1, report |-> rep, exc |-> "TypeError"]
        ELSE IF output_report.b13 = 0
        THEN IF output_report.b14 = 0
             THEN [mcu |-> set_state(m1, "STAND_BY"), report |-> rep, exc |-> ""]
             ELSE IF output_report.b14 = 4
             THEN [mcu |-> set_state(m1, "NFC"), report |-> rep, exc |-> ""]
             ELSE [mcu |-> m1, report |-> rep, exc |-> ""]
        ELSE [mcu |-> m1, report |-> rep, exc |-> ""]

\* Variant: an id other than Resume and Suspend is answered like Suspend
\* without the state change, nothing is raised.
command_set_nfc_ir_mcu_state_Lenient(m, report, output_report) ==
    LET rep == [report EXCEPT !.b1 = 33, !.b3 = 142, !.b14 = 128, !.b15 = 34]
    IN  IF output_report = None
        THEN [mcu |-> m, report |-> rep, exc |-> "TypeError"]
        ELSE IF output_report.b12 = 1
        THEN [mcu |-> set_state(set_action(m, "NON"), "STAND_BY"),
              report |-> rep, exc |-> ""]
        ELSE IF output_report.b12 = 0
        THEN [mcu |-> set_state(m, "STAND_BY"), report |-> rep, exc |-> ""]
        ELSE [mcu |-> m, report |-> rep, exc |-> ""]

\* Variant: Suspend clears the action as Resume does.
command_set_nfc_ir_mcu_state_SuspendClears(m, report, output_report) ==
    LET rep == [report EXCEPT !.b1 = 33, !.b3 = 142, !.b14 = 128, !.b15 = 34]
    IN  IF output_report = None
        THEN [mcu |-> m, report |-> rep, exc |-> "TypeError"]
        ELSE IF output_report.b12 \in {0, 1}
        THEN [mcu |-> set_state(set_action(m, "NON"), "STAND_BY"),
              report |-> rep, exc |-> ""]
        ELSE [mcu |-> m, report |-> rep, exc |-> "NotImplementedError"]

command_set_nfc_ir_mcu_state(m, report, output_report) ==
    LET rep == [report EXCEPT !.b1 = 33, !.b3 = 142, !.b14 = 128, !.b15 = 34]
    IN  IF output_report = None
        THEN [mcu |-> m, report |-> rep, exc |-> "TypeError"]
        ELSE IF output_report.b12 = 1
        THEN [mcu |-> set_state(set_action(m, "NON"), "STAND_BY"),
              report |-> rep, exc |-> ""]
        ELSE IF output_report.b12 = 0
        THEN [mcu |-> set_state(m, "STAND_BY"), report |-> rep, exc |-> ""]
        ELSE [mcu |-> m, report |-> rep, exc |-> "NotImplementedError"]

\* Report Classifier of the peripheral frame, in the order of the elif chain.
Classify(f) ==
    IF f.b14 = 160 /\ f.b15 = 33 THEN "SetMcuConfig"
    ELSE IF f.b14 = 128 /\ f.b15 = 34 THEN "SetMcuState"
    ELSE IF f.b1 = 49 THEN "NfcModeReport"
    ELSE "PassThrough"

\* Variant of ModifyReport: the NFC/IR mode report is cut at offset 16, where
\* the MCU payload of the other reports starts, instead of offset 50.
ModifyReport_CutsAt16(m, f, output_report, data) ==
    IF Classify(f) = "SetMcuConfig"
    THEN command_set_nfc_ir_mcu_config(m, f, output_report)
    ELSE IF Classify(f) = "SetMcuState"
    THEN command_set_nfc_ir_mcu_state(m, f, output_report)
    ELSE IF Classify(f) = "NfcModeReport"
    THEN LET u == update_nfc_report(m, data)
         IN  [mcu |-> u.mcu,
              report |-> [f EXCEPT !.body = bytes_mcu(u.mcu, u.chunk),
                                   !.ext = bytes_mcu(u.mcu, u.chunk)],
              exc |-> ""]
    ELSE [mcu |-> m, report |-> f, exc |-> ""]

\* The peripheral frame as modified for the host: the MCU after it, the frame
\* and the exception raised.
ModifyReport(m, f, output_report, data) ==
    IF Classify(f) = "SetMcuConfig"
    THEN command_set_nfc_ir_mcu_config(m, f, output_report)
    ELSE IF Classify(f) = "SetMcuState"
    THEN command_set_nfc_ir_mcu_state(m, f, output_report)
    ELSE IF Classify(f) = "NfcModeReport"
    THEN LET u == update_nfc_report(m, data)
         IN  [mcu |-> u.mcu, report |-> [f EXCEPT !.ext = bytes_mcu(u.mcu, u.chunk)],
              exc |-> ""]
    ELSE [mcu |-> m, report |-> f, exc |-> ""]

\* Variant of TableAction: the arguments of discovery (0x04) and polling
\* (0x01) are swapped.
TableAction_SwapsDiscoveryAndPolling(r) ==
    IF r.b11 = 1 THEN "REQUEST_STATUS"
    ELSE IF r.b11 = 2
    THEN IF r.b12 = 1 THEN "START_TAG_DISCOVERY"
         ELSE IF r.b12 = 4 THEN "START_TAG_POLLING"
         ELSE IF r.b12 = 2 THEN "NON"
         ELSE IF r.b12 = 6 THEN "READ_TAG"
         ELSE ""
    ELSE ""

\* The value the transition table gives for a host MCU-subcommand frame, or
\* "" when the table has no row for it.
TableAction(r) ==
    IF r.b11 = 1 THEN "REQUEST_STATUS"
    ELSE IF r.b11 = 2
    THEN IF r.b12 = 4 THEN "START_TAG_DISCOVERY"
         ELSE IF r.b12 = 1 THEN "START_TAG_POLLING"
         ELSE IF r.b12 = 2 THEN "NON"
         ELSE IF r.b12 = 6 THEN "READ_TAG"
         ELSE ""
    ELSE ""

\* Variants of McuTransition with a slip in it.
\* The read-in-progress test is missing.
McuTransition_NoReadGuard(m, r) ==
    IF r # None /\ r.b1 = 17
    THEN IF TableAction(r) # "" THEN set_action(m, TableAction(r)) ELSE m
    ELSE m

\* The read-in-progress test names READ_FINISHED only.
McuTransition_GuardFinishedOnly(m, r) ==
    IF r # None /\ r.b1 = 17
    THEN IF get_action(m) # "READ_FINISHED"
         THEN IF TableAction(r) # "" THEN set_action(m, TableAction(r)) ELSE m
         ELSE m
    ELSE m

\* The read-in-progress test leaves READ_FINISHED out.
McuTransition_FinishedUnguarded(m, r) ==
    IF r # None /\ r.b1 = 17
    THEN IF get_action(m) \notin {"READ_TAG", "READ_TAG_2"}
         THEN IF TableAction(r) # "" THEN set_action(m, TableAction(r)) ELSE m
         ELSE m
    ELSE m

\* "Stop polling" also puts the MCU in stand-by.
McuTransition_StopStandsBy(m, r) ==
    IF r # None /\ r.b1 = 17
    THEN IF get_action(m) \notin ReadActions
         THEN IF TableAction(r) = "NON"
              THEN set_state(set_action(m, "NON"), "STAND_BY")
              ELSE IF TableAction(r) # "" THEN set_action(m, TableAction(r)) ELSE m
         ELSE m
    ELSE m

\* "Change MCU state based on output report from Switch".
McuTransition(m, r) ==
    IF r # None /\ r.b1 = 17
    THEN IF get_action(m) \notin ReadActions
         THEN IF TableAction(r) # "" THEN set_action(m, TableAction(r)) ELSE m
         ELSE m
    ELSE m

\* Variant of Remember: the test of the subcommand byte is missing.
Remember_AnySubcommand(last, r) ==
    IF r.b1 = 1 THEN r ELSE last

\* "if reply[1] == 0x01 and (reply[11] == 0x21 or reply[11] == 0x22)".
Remember(last, r) ==
    IF r.b1 = 1 /\ (r.b11 = 33 \/ r.b11 = 34) THEN r ELSE last

\* A SET_NFC_IR_MCU_STATE request (report 0x01, subcommand 0x22) whose id is
\* neither 0x00 (Suspend) nor 0x01 (Resume).
BadStateId(r) ==
    r # None /\ r.b1 = 1 /\ r.b11 = 34 /\ r.b12 \notin {0, 1}

\* Variant of TimerAdvance: a wrap counts modulo 256.
TimerAdvance_Modulo256(old, counter, timer_new) ==
    IF timer_new < old
    THEN counter + (timer_new - (old - 256))
    ELSE counter + (timer_new - old)

\* The timer counter after a peripheral frame with timer byte timer_new.
TimerAdvance(old, counter, timer_new) ==
    IF timer_new < old
    THEN counter + (timer_new - (old - 255))
    ELSE counter + (timer_new - old)

----------------------------------------------------------------------------
\* The session.

Sockets == {"jc_ctrl", "jc_itr", "switch_itr", "switch_ctrl",
            "client_control", "client_interrupt"}

HandshakePcs == {"hs_initial", "hs_send3", "hs_reply", "hs_fwd_reply",
                 "hs_info", "enter_main"}
LoopPcs == {"recv_host", "fwd_host", "recv_jc", "timer", "modify",
            "transition", "send"}

Init ==
    /\ pc = "hs_initial"
    /\ i = 0
    /\ nfc_data \in {NoNfcData} \cup (1 .. MaxChunks)
    /\ reply = None
    /\ jc_data = None
    /\ last_output_report = None
    /\ mcu = IrNfcMcu
    /\ timer_old = 0
    /\ timer_counter = 0
    /\ exc = ""
    /\ closed = {}
    /\ input_plugin = FALSE
    /\ messages_txt = FALSE
    /\ exit_status = -1
    /\ jc_raw = None
    /\ host_sent = <<>>
    /\ jc_sent = <<>>
    /\ events = <<>>
    /\ mcu_iter = IrNfcMcu
    /\ read_polls = 0
    /\ bad_id_sent = FALSE

\* ---- Handshake ----

\* "jc_data = jc_itr.recv(350)": the initial input report.
HsInitial ==
    /\ pc = "hs_initial"
    /\ \E f \in JcFrames : jc_data' = f
    /\ pc' = "hs_send3"
    /\ i' = 0
    /\ UNCHANGED <<nfc_data, reply, last_output_report, mcu, timer, teardown, hist>>

\* "for i in range(3): client_interrupt.sendall(jc_data)".
HsSend3 ==
    /\ pc = "hs_send3"
    /\ i < 3
    /\ host_sent' = Append(host_sent, jc_data)
    /\ i' = i + 1
    /\ pc' = IF i + 1 = 3 THEN "hs_reply" ELSE "hs_send3"
    /\ UNCHANGED <<nfc_data, reply, jc_data, last_output_report, mcu, timer,
                   teardown, jc_raw, jc_sent, events, ghost>>

\* "reply = client_interrupt.recv(350)".
HsReply ==
    /\ pc = "hs_reply"
    /\ \E r \in HostFrames :
          /\ reply' = r
          /\ bad_id_sent' = (bad_id_sent \/ BadStateId(r))
    /\ pc' = "hs_fwd_reply"
    /\ UNCHANGED <<i, nfc_data, jc_data, last_output_report, mcu, timer,
                   teardown, chan, mcu_iter, read_polls>>

\* "jc_itr.sendall(reply)".
HsFwdReply ==
    /\ pc = "hs_fwd_reply"
    /\ jc_sent' = Append(jc_sent, reply)
    /\ pc' = "hs_info"
    /\ UNCHANGED <<i, nfc_data, reply, jc_data, last_output_report, mcu, timer,
                   teardown, jc_raw, host_sent, events, ghost>>

\* Variant of HsInfo: every frame read while waiting is forwarded to the host.
HsInfo_ForwardsAll ==
    /\ pc = "hs_info"
    /\ \E f \in JcFrames :
          /\ jc_data' = f
          /\ host_sent' = Append(host_sent, f)
          /\ pc' = IF f.b1 = 33 THEN "enter_main" ELSE "hs_info"
    /\ UNCHANGED <<i, nfc_data, reply, last_output_report, mcu, timer,
                   teardown, jc_raw, jc_sent, events, ghost>>

\* "while True: jc_data = jc_itr.recv(350); if jc_data[1] == 0x21: ... break".
HsInfo ==
    /\ pc = "hs_info"
    /\ \E f \in JcFrames :
          /\ jc_data' = f
          /\ IF f.b1 = 33
             THEN /\ host_sent' = Append(host_sent, f)
                  /\ pc' = "enter_main"
             ELSE /\ host_sent' = host_sent
                  /\ pc' = "hs_info"
    /\ UNCHANGED <<i, nfc_data, reply, last_output_report, mcu, timer,
                   teardown, jc_raw, jc_sent, events, ghost>>

\* "mcu = IrNfcMcu(); mcu.set_nfc(nfc_data); last_output_report = None".
EnterMain ==
    /\ pc = "enter_main"
    /\ mcu' = set_nfc(IrNfcMcu, nfc_data)
    /\ last_output_report' = None
    /\ pc' = "recv_host"
    /\ UNCHANGED <<i, nfc_data, reply, jc_data, timer, teardown, hist>>

\* ---- Main loop ----

\* "try: reply = client_interrupt.recv(350) except BlockingIOError: reply = None".
RecvHostFrom(frames) ==
    /\ pc = "recv_host"
    /\ \E r \in frames :
          /\ reply' = r
          /\ bad_id_sent' = (bad_id_sent \/ BadStateId(r))
    /\ pc' = "fwd_host"
    /\ jc_raw' = None
    /\ host_sent' = <<>>
    /\ jc_sent' = <<>>
    /\ events' = <<"recv_host">>
    /\ mcu_iter' = mcu
    /\ UNCHANGED <<i, nfc_data, jc_data, last_output_report, mcu, timer, teardown,
                   read_polls>>

\* What one non-blocking recv can give: a host frame, or nothing (None).
HostInputs == HostFrames \cup {None}

RecvHost == RecvHostFrom(HostInputs)

\* Variant of FwdHost: the sendall sits inside the inner if, so only the
\* frames that are remembered are forwarded.
FwdHost_ForwardsRememberedOnly ==
    /\ pc = "fwd_host"
    /\ IF reply # None
       THEN /\ last_output_report' = Remember(last_output_report, reply)
            /\ jc_sent' = IF Remember(None, reply) = reply
                          THEN Append(jc_sent, reply) ELSE jc_sent
            /\ events' = Append(events, "fwd_host")
       ELSE UNCHANGED <<last_output_report, jc_sent, events>>
    /\ pc' = "recv_jc"
    /\ UNCHANGED <<i, nfc_data, reply, jc_data, mcu, timer, teardown,
                   jc_raw, host_sent, ghost>>

\* "if reply: ... last_output_report = reply ...; jc_itr.sendall(reply)".
FwdHost ==
    /\ pc = "fwd_host"
    /\ IF reply # None
       THEN /\ last_output_report' = Remember(last_output_report, reply)
            /\ jc_sent' = Append(jc_sent, reply)
            /\ events' = Append(events, "fwd_host")
       ELSE UNCHANGED <<last_output_report, jc_sent, events>>
    /\ pc' = "recv_jc"
    /\ UNCHANGED <<i, nfc_data, reply, jc_data, mcu, timer, teardown,
                   jc_raw, host_sent, ghost>>

\* "jc_data = jc_itr.recv(350)".
RecvJcFrom(frames) ==
    /\ pc = "recv_jc"
    /\ \E f \in frames :
          /\ jc_data' = f
          /\ jc_raw' = f
    /\ events' = Append(events, "recv_jc")
    /\ pc' = "timer"
    /\ UNCHANGED <<i, nfc_data, reply, last_output_report, mcu, timer, teardown,
                   host_sent, jc_sent, ghost>>

RecvJc == RecvJcFrom(JcFrames)

\* "timer_new = int(jc_data[2]) ... timer_old = timer_new".
UpdateTimer ==
    /\ pc = "timer"
    /\ timer_counter' = TimerAdvance(timer_old, timer_counter, jc_data.b2)
    /\ timer_old' = jc_data.b2
    /\ pc' = "modify"
    /\ UNCHANGED <<i, nfc_data, reply, jc_data, last_output_report, mcu,
                   teardown, hist>>

\* "if nfc_data is not None: # Modify NFC-related input reports from Joycon".
Modify ==
    /\ pc = "modify"
    /\ nfc_data # NoNfcData
    /\ LET res == ModifyReport(mcu, jc_data, last_output_report, nfc_data)
       IN  /\ mcu' = res.mcu
           /\ read_polls' = IF res.mcu.current_action \notin ReadActions THEN 0
                            ELSE IF Classify(jc_data) = "NfcModeReport"
                                    /\ mcu.current_action \in {"READ_TAG", "READ_TAG_2"}
                            THEN read_polls + 1
                            ELSE read_polls
           /\ IF res.exc = ""
              THEN /\ jc_data' = res.report
                   /\ events' = Append(events, "build")
                   /\ pc' = "transition"
                   /\ exc' = exc
              ELSE /\ jc_data' = jc_data
                   /\ events' = events
                   /\ pc' = "except"
                   /\ exc' = res.exc
    /\ UNCHANGED <<i, nfc_data, reply, last_output_report, timer, closed,
                   input_plugin, messages_txt, exit_status,
                   jc_raw, host_sent, jc_sent, mcu_iter, bad_id_sent>>

\* Variant of Transition: the step is taken but the transition is not applied.
Transition_NotApplied ==
    /\ pc = "transition"
    /\ events' = IF reply # None /\ reply.b1 = 17
                 THEN Append(events, "transition") ELSE events
    /\ pc' = "send"
    /\ UNCHANGED <<i, nfc_data, reply, jc_data, last_output_report, mcu, timer,
                   teardown, jc_raw, host_sent, jc_sent, ghost>>

\* "if reply is not None and reply[1] == 0x11: ..." (spoof mode only).
Transition ==
    /\ pc = "transition"
    /\ mcu' = McuTransition(mcu, reply)
    /\ events' = IF reply # None /\ reply.b1 = 17
                 THEN Append(events, "transition") ELSE events
    /\ read_polls' = IF mcu.current_action \in ReadActions
                         /\ McuTransition(mcu, reply).current_action \in ReadActions
                      THEN read_polls ELSE 0
    /\ pc' = "send"
    /\ UNCHANGED <<i, nfc_data, reply, jc_data, last_output_report, timer,
                   teardown, jc_raw, host_sent, jc_sent, mcu_iter, bad_id_sent>>

\* Variant of PassThrough: the "nfc_data is not None" test is missing, the
\* frame is modified without a tag image too.
PassThrough_Spoofs ==
    /\ pc = "modify"
    /\ nfc_data = NoNfcData
    /\ jc_data' = ModifyReport(mcu, jc_data, last_output_report, nfc_data).report
    /\ pc' = "send"
    /\ UNCHANGED <<i, nfc_data, reply, last_output_report, mcu, timer,
                   teardown, hist>>

\* "else: write_to_buffer(message_buffer, jc_data, "controller")".
PassThrough ==
    /\ pc = "modify"
    /\ nfc_data = NoNfcData
    /\ pc' = "send"
    /\ UNCHANGED <<i, nfc_data, reply, jc_data, last_output_report, mcu, timer,
                   teardown, hist>>

\* "client_interrupt.sendall(jc_data)".
Send ==
    /\ pc = "send"
    /\ host_sent' = Append(host_sent, jc_data)
    /\ events' = Append(events, "send")
    /\ pc' = "recv_host"
    /\ UNCHANGED <<i, nfc_data, reply, jc_data, last_output_report, mcu, timer,
                   teardown, jc_raw, jc_sent, ghost>>

\* ---- Faults and teardown ----

\* The statements that read or write a socket.
IoPcs == {"hs_initial", "hs_send3", "hs_reply", "hs_fwd_reply", "hs_info",
          "recv_host", "fwd_host", "recv_jc", "send"}

\* A transport failure: a socket call raises OSError.
TransportFailure ==
    /\ pc \in IoPcs
    /\ ~(pc = "fwd_host" /\ reply = None)
    /\ exc' = "OSError"
    /\ pc' = "except"
    /\ UNCHANGED <<i, nfc_data, reply, jc_data, last_output_report, mcu, timer,
                   closed, input_plugin, messages_txt, exit_status, hist>>

\* The operator presses Ctrl-C.
Interrupt ==
    /\ pc \in HandshakePcs \cup LoopPcs
    /\ exc' = "KeyboardInterrupt"
    /\ pc' = "except"
    /\ UNCHANGED <<i, nfc_data, reply, jc_data, last_output_report, mcu, timer,
                   closed, input_plugin, messages_txt, exit_status, hist>>

\* The sockets the handler of exception e closes ("except KeyboardInterrupt",
\* "except OSError as e"); any other exception has no handler.
HandlerCloses(e) ==
    IF e \in {"KeyboardInterrupt", "OSError"}
    THEN {"jc_ctrl", "jc_itr", "switch_itr", "switch_ctrl"}
    ELSE {}

Except ==
    /\ pc = "except"
    /\ closed' = closed \cup HandlerCloses(exc)
    /\ pc' = "finally"
    /\ UNCHANGED <<i, nfc_data, reply, jc_data, last_output_report, mcu, timer,
                   exc, input_plugin, messages_txt, exit_status, hist>>

\* Variant of Finally: an operator-requested stop exits with status 0.
Finally_CleanStopExitsZero ==
    /\ pc = "finally"
    /\ input_plugin' = TRUE
    /\ messages_txt' = TRUE
    /\ exit_status' = IF exc = "KeyboardInterrupt" THEN 0 ELSE 1
    /\ pc' = "exited"
    /\ UNCHANGED <<i, nfc_data, reply, jc_data, last_output_report, mcu, timer,
                   exc, closed, hist>>

\* "finally: toggle_input_plugin(True); ... f.write(...); os._exit(1)".
Finally ==
    /\ pc = "finally"
    /\ input_plugin' = TRUE
    /\ messages_txt' = TRUE
    /\ exit_status' = 1
    /\ pc' = "exited"
    /\ UNCHANGED <<i, nfc_data, reply, jc_data, last_output_report, mcu, timer,
                   exc, closed, hist>>

Next ==
    \/ HsInitial
    \/ HsSend3
    \/ HsReply
    \/ HsFwdReply
    \/ HsInfo
    \/ EnterMain
    \/ RecvHost
    \/ FwdHost
    \/ RecvJc
    \/ UpdateTimer
    \/ Modify
    \/ Transition
    \/ PassThrough
    \/ Send
    \/ TransportFailure
    \/ Interrupt
    \/ Except
    \/ Finally

Spec == Init /\ [][Next]_vars

\* ---- The timer specification ----
\* The main loop without a tag image and with an idle host, from the state in
\* which the handshake leaves it, fed with frames of all the timer bytes.

InitTimer ==
    LET first == [src |-> "jc", b1 |-> 48, b2 |-> 0, b3 |-> 0, b14 |-> 0, b15 |-> 0,
                  body |-> [orig |-> TRUE], ext |-> [orig |-> TRUE]]
        info == [first EXCEPT !.b1 = 33]
        ack == [src |-> "host", b1 |-> 1, b11 |-> 48, b12 |-> 1, b13 |-> 0, b14 |-> 0]
    IN  /\ pc = "recv_host"
        /\ i = 3
        /\ nfc_data = NoNfcData
        /\ reply = ack
        /\ jc_data = info
        /\ last_output_report = None
        /\ mcu = IrNfcMcu
        /\ timer_old = 0
        /\ timer_counter = 0
        /\ exc = ""
        /\ closed = {}
        /\ input_plugin = FALSE
        /\ messages_txt = FALSE
        /\ exit_status = -1
        /\ jc_raw = None
        /\ host_sent = <<first, first, first, info>>
        /\ jc_sent = <<ack>>
        /\ events = <<>>
        /\ mcu_iter = IrNfcMcu
        /\ read_polls = 0
        /\ bad_id_sent = FALSE

\* "except BlockingIOError: reply = None": the host has sent nothing.
RecvHostIdle == RecvHostFrom({None})

RecvJcTimer ==
    /\ timer_counter < MaxTimerCounter
    /\ RecvJcFrom(TimerJcFrames)

NextTimer ==
    \/ RecvHostIdle
    \/ FwdHost
    \/ RecvJcTimer
    \/ UpdateTimer
    \/ PassThrough
    \/ Send

SpecTimer == InitTimer /\ [][NextTimer]_vars

----------------------------------------------------------------------------
\* Properties.

Last(s) == s[Len(s)]
Events == {events[k] : k \in 1 .. Len(events)}
Spoofing == nfc_data # NoNfcData
IsMcuSubcommand(r) == r # None /\ r.b1 = 17
\* A discovery (0x02/0x04), poll (0x02/0x01) or stop (0x02/0x02) subcommand.
IsDiscoveryPollStop(r) == IsMcuSubcommand(r) /\ r.b11 = 2 /\ r.b12 \in {1, 2, 4}
\* The iteration has sent its answer to the host.
Answered == events # <<>> /\ Last(events) = "send"
ListenAndJcSockets == {"jc_ctrl", "jc_itr", "switch_itr", "switch_ctrl"}

\* C1: without a tag image, the one frame an iteration of the main loop sends
\* to the host is the peripheral frame read in that iteration, unchanged, and
\* nothing is sent to the host before that point of the iteration.
C1_PassThroughVerbatim ==
    (nfc_data = NoNfcData /\ events # <<>>) =>
        IF Last(events) = "send" THEN host_sent = <<jc_raw>> ELSE host_sent = <<>>

C1_Witness ==
    /\ nfc_data = NoNfcData
    /\ Answered
    /\ IsMcuSubcommand(reply)
    /\ Classify(jc_raw) = "SetMcuConfig"
    /\ host_sent = <<jc_raw>>

\* C2 as stated: once the peripheral's frame of the iteration has been read,
\* the host frame of the iteration has been forwarded and no MCU transition it
\* drives remains to be applied, so the answer is built after the transition.
C2_TransitionBeforeAnswerBuilt ==
    /\ ("recv_jc" \in Events /\ reply # None) => jc_sent = <<reply>>
    /\ (Spoofing /\ pc \in {"timer", "modify"}) => McuTransition(mcu, reply) = mcu

\* C2 amended: the host frame is forwarded to the peripheral before the
\* peripheral's frame is read; the MCU transition it drives is applied after
\* the answer is built and before the answer is sent to the host.
C2_ForwardThenBuildThenTransition ==
    /\ ("recv_jc" \in Events /\ reply # None) =>
           (jc_sent = <<reply>> /\ events[2] = "fwd_host" /\ events[3] = "recv_jc")
    /\ (Spoofing /\ pc = "send") =>
           (McuTransition(mcu, reply) = mcu /\ host_sent = <<>>)
    /\ (Spoofing /\ Answered /\ IsMcuSubcommand(reply)) =>
           events = <<"recv_host", "fwd_host", "recv_jc", "build", "transition", "send">>

C2_Witness ==
    /\ Spoofing
    /\ Answered
    /\ IsMcuSubcommand(reply) /\ reply.b11 = 1
    /\ Classify(jc_raw) = "NfcModeReport"
    /\ mcu_iter.current_action = "NON"
    /\ mcu.current_action = "REQUEST_STATUS"
    /\ host_sent[1].ext.current_action = "NON"

\* C3: when the process has exited after an operator interrupt, a transport
\* failure or the NotImplementedError of an undefined MCU-state id, the
\* sockets are closed, the input plugin is toggled back and messages.txt is
\* written.
C3_FullTeardown ==
    (pc = "exited" /\ exc \in {"KeyboardInterrupt", "OSError", "NotImplementedError"}) =>
        (ListenAndJcSockets \subseteq closed /\ input_plugin /\ messages_txt)

\* C4: while the action is READ_TAG, READ_TAG_2 or READ_FINISHED, the
\* transition step of a host discovery, poll or stop subcommand leaves the
\* action as it is.
C4_ReadNotInterrupted ==
    [][(/\ pc = "transition" /\ pc' = "send"
        /\ mcu.current_action \in ReadActions
        /\ IsDiscoveryPollStop(reply))
       => mcu'.current_action = mcu.current_action]_vars

C4_Witness ==
    /\ pc = "send"
    /\ Last(events) = "transition"
    /\ IsDiscoveryPollStop(reply)
    /\ mcu.current_action = "READ_TAG_2"

\* The action update_nfc_report moves to from a: the next of the read sequence.
NextOfRead(a) ==
    IF a = "READ_TAG" THEN "READ_TAG_2" ELSE "READ_FINISHED"

\* C5: with a tag image of nfc_data chunks, a read is over after at most
\* nfc_data + 1 NFC/IR mode reports: while the action is READ_TAG or
\* READ_TAG_2 at most nfc_data reports have been answered since it became
\* READ_TAG, every report answered counts and moves the action on or keeps it,
\* READ_TAG_2 always to READ_FINISHED, and no step that handles a host frame
\* changes the action.
C5_ReadFinishes ==
    /\ [](mcu.current_action \in {"READ_TAG", "READ_TAG_2"} => read_polls <= nfc_data)
    /\ [][(/\ mcu.current_action \in {"READ_TAG", "READ_TAG_2"}
           /\ \/ pc \in {"recv_host", "fwd_host", "transition"}
              \/ pc = "modify" /\ Classify(jc_data) # "SetMcuState")
          => /\ mcu'.current_action \in {mcu.current_action, NextOfRead(mcu.current_action)}
             /\ (pc # "modify" => mcu'.current_action = mcu.current_action)
             /\ (pc = "modify" /\ pc' = "transition" /\ Classify(jc_data) = "NfcModeReport")
                   => /\ read_polls' = read_polls + 1
                      /\ (mcu.current_action = "READ_TAG_2"
                             => mcu'.current_action = "READ_FINISHED")]_vars

C5_Witness ==
    /\ nfc_data > 1
    /\ mcu.current_action = "READ_FINISHED"
    /\ read_polls = nfc_data + 1
    /\ IsDiscoveryPollStop(reply)
    /\ mcu_iter.current_action = "READ_TAG_2"

\* C6 as stated: at READ_FINISHED the transition step of a host discovery,
\* poll or stop subcommand sets the action to the value of the table.
C6_HostCommandLeavesFinished ==
    [][(/\ pc = "transition" /\ pc' = "send"
        /\ mcu.current_action = "READ_FINISHED"
        /\ IsDiscoveryPollStop(reply))
       => mcu'.current_action = TableAction(reply)]_vars

\* C6 amended: the action leaves READ_FINISHED only when a SetMcuState frame
\* is answered from a remembered request with id 0x01 (Resume), and it is NON
\* then; polls and host MCU subcommands keep it READ_FINISHED.
C6_FinishedHoldsUntilResume ==
    [][(mcu.current_action = "READ_FINISHED" /\ mcu'.current_action # "READ_FINISHED")
       => /\ pc = "modify"
          /\ Classify(jc_data) = "SetMcuState"
          /\ last_output_report # None
          /\ last_output_report.b12 = 1
          /\ mcu'.current_action = "NON"]_vars

C6_Witness ==
    /\ pc = "send"
    /\ Last(events) = "transition"
    /\ IsDiscoveryPollStop(reply)
    /\ Classify(jc_raw) = "NfcModeReport"
    /\ mcu_iter.current_action = "READ_FINISHED"
    /\ mcu.current_action = "READ_FINISHED"

\* The step is the automatic advance of the read sequence by a poll.
PollAdvance ==
    /\ pc = "modify"
    /\ Classify(jc_data) = "NfcModeReport"
    /\ <<mcu.current_action, mcu'.current_action>> \in
           {<<"READ_TAG", "READ_TAG_2">>, <<"READ_TAG_2", "READ_FINISHED">>}

\* The step is the transition step of a host MCU-subcommand frame.
HostSubcommandStep == pc = "transition" /\ IsMcuSubcommand(reply)

\* C7 as stated: the action changes only in the transition step of a host
\* MCU-subcommand frame or by the automatic advance of a read.
C7_ActionOnlyByHostSubcommand ==
    [][mcu'.current_action # mcu.current_action
       => (HostSubcommandStep \/ PollAdvance)]_vars

\* C7 amended: the action changes only in the transition step of a host
\* MCU-subcommand frame, by the automatic advance of a read, or when a
\* SetMcuState frame is answered from a remembered request with id 0x01
\* (Resume), which sets it to NON; a SetMcuConfig frame never changes it.
C7_ActionByHostSubcommandOrResume ==
    [][mcu'.current_action # mcu.current_action
       => \/ HostSubcommandStep
          \/ PollAdvance
          \/ /\ pc = "modify"
             /\ Classify(jc_data) = "SetMcuState"
             /\ last_output_report # None
             /\ last_output_report.b12 = 1
             /\ mcu'.current_action = "NON"]_vars

C7_Witness ==
    /\ pc = "transition"
    /\ Classify(jc_raw) = "SetMcuState"
    /\ last_output_report # None
    /\ last_output_report.b12 = 1
    /\ mcu_iter.current_action = "START_TAG_POLLING"
    /\ mcu.current_action = "NON"

\* C8 as stated: the operating state changes only when a SetMcuConfig frame
\* is answered.
C8_StateOnlyByConfig ==
    [][mcu'.operating_state # mcu.operating_state
       => (pc = "modify" /\ Classify(jc_data) = "SetMcuConfig")]_vars

\* C8 amended: the operating state changes only when a SetMcuConfig or a
\* SetMcuState frame is answered (the latter sets STAND_BY); host
\* MCU-subcommand frames and polls leave it as it is.
C8_StateOnlyByConfigOrState ==
    [][mcu'.operating_state # mcu.operating_state
       => /\ pc = "modify"
          /\ \/ Classify(jc_data) = "SetMcuConfig"
             \/ Classify(jc_data) = "SetMcuState" /\ mcu'.operating_state = "STAND_BY"]_vars

C8_Witness ==
    /\ pc = "transition"
    /\ Classify(jc_raw) = "SetMcuState"
    /\ mcu_iter.operating_state = "NFC"
    /\ mcu.operating_state = "STAND_BY"

\* C9: as long as the host has sent no MCU-state request with an id other
\* than 0x00 and 0x01, no NotImplementedError has been raised.
C9_NoUnsupportedOperation ==
    ~bad_id_sent => exc # "NotImplementedError"

\* The remembered request carries no config argument the program knows.
UnknownConfigArgument(r) ==
    r # None /\ ~(r.b13 = 0 /\ r.b14 \in {0, 4})

\* The fixed marker bytes of a SetMcuConfig response.
HasConfigMarkers(f) ==
    f.b1 = 33 /\ f.b3 = 142 /\ f.b14 = 160 /\ f.b15 = 33

\* C10: unless the operator interrupts at that very point, the transition
\* step of a host MCU subcommand with an unknown id or argument goes on to the
\* send with the MCU unchanged and nothing raised; a SetMcuConfig frame
\* answered from a request with an unknown config argument goes on with the
\* MCU unchanged, nothing raised and the response built; and the frame sent to
\* the host for a SetMcuConfig frame is that response.
C10_UnknownNotFatal ==
    /\ [][(/\ pc = "transition"
           /\ IsMcuSubcommand(reply) /\ TableAction(reply) = ""
           /\ exc' # "KeyboardInterrupt")
          => (pc' = "send" /\ mcu' = mcu /\ exc' = "")]_vars
    /\ [][(/\ pc = "modify" /\ Spoofing
           /\ Classify(jc_data) = "SetMcuConfig"
           /\ UnknownConfigArgument(last_output_report)
           /\ exc' # "KeyboardInterrupt")
          => /\ pc' = "transition" /\ exc' = ""
             /\ mcu'.operating_state = mcu.operating_state
             /\ mcu'.current_action = mcu.current_action
             /\ HasConfigMarkers(jc_data')
             /\ jc_data'.body = bytes_mcu(mcu, 0)]_vars
    /\ []((Spoofing /\ Answered /\ Classify(jc_raw) = "SetMcuConfig")
          => (Len(host_sent) = 1 /\ HasConfigMarkers(host_sent[1])))

C10_Witness ==
    /\ Spoofing
    /\ Answered
    /\ Classify(jc_raw) = "SetMcuConfig"
    /\ UnknownConfigArgument(last_output_report)
    /\ IsMcuSubcommand(reply) /\ TableAction(reply) = ""
    /\ mcu = mcu_iter
    /\ HasConfigMarkers(host_sent[1])

\* C11: when no read is in progress, the transition step of a host
\* MCU-subcommand frame sets the action by the table: subcommand 0x01 gives
\* REQUEST_STATUS; subcommand 0x02 with argument 0x04 START_TAG_DISCOVERY, 0x01
\* START_TAG_POLLING, 0x02 NON, 0x06 READ_TAG; the operating state stays.
C11_TransitionTable ==
    [][(/\ pc = "transition" /\ pc' = "send"
        /\ IsMcuSubcommand(reply)
        /\ mcu.current_action \notin ReadActions)
       => /\ mcu'.operating_state = mcu.operating_state
          /\ (reply.b11 = 1 => mcu'.current_action = "REQUEST_STATUS")
          /\ (reply.b11 = 2 /\ reply.b12 = 4 => mcu'.current_action = "START_TAG_DISCOVERY")
          /\ (reply.b11 = 2 /\ reply.b12 = 1 => mcu'.current_action = "START_TAG_POLLING")
          /\ (reply.b11 = 2 /\ reply.b12 = 2 => mcu'.current_action = "NON")
          /\ (reply.b11 = 2 /\ reply.b12 = 6 => mcu'.current_action = "READ_TAG")]_vars

C11_Witness ==
    /\ pc = "send"
    /\ Last(events) = "transition"
    /\ IsMcuSubcommand(reply) /\ reply.b11 = 2 /\ reply.b12 = 6
    /\ mcu_iter.current_action = "START_TAG_DISCOVERY"
    /\ mcu.current_action = "READ_TAG"
    /\ mcu.operating_state = "NFC"

\* C12: a run that has ended has ended with a non-zero exit status, whatever
\* ended it: an operator's stop, a transport failure or any other fault.
C12_ExitsNonZero ==
    /\ (pc = "exited" => (exit_status # 0 /\ exit_status # -1))
    /\ (pc # "exited" => exit_status = -1)

C12_Witness ==
    /\ pc = "exited"
    /\ exc = "KeyboardInterrupt"
    /\ exit_status = 1

\* The 8-bit values.
Bytes == 0 .. 255

\* The step is the timer update of the peripheral frame just read.
TimerStep == pc = "timer" /\ pc' = "modify"

\* C13: the timer update adds new - old to the counter when new >= old and
\* new - (old - 255) when new < old, with new the timer byte of the frame; from
\* 254 to 1 that is 2 and from 10 to 15 it is 5; no step makes the counter
\* smaller, and no pair of 8-bit values gives a negative advance.
C13_TimerAdvance ==
    /\ [][timer_counter' >= timer_counter]_vars
    /\ [][TimerStep =>
            /\ timer_old' = jc_data.b2
            /\ (jc_data.b2 >= timer_old =>
                    timer_counter' - timer_counter = jc_data.b2 - timer_old)
            /\ (jc_data.b2 < timer_old =>
                    timer_counter' - timer_counter = jc_data.b2 - (timer_old - 255))
            /\ (timer_old = 254 /\ jc_data.b2 = 1 => timer_counter' = timer_counter + 2)
            /\ (timer_old = 10 /\ jc_data.b2 = 15 => timer_counter' = timer_counter + 5)]_vars
    /\ []((pc = "recv_host" /\ timer_counter = 0) =>
            \A old \in Bytes, new \in Bytes :
                /\ TimerAdvance(old, 0, new) >= 0
                /\ (new < old => TimerAdvance(old, 0, new) = new - old + 255)
                /\ (new >= old => TimerAdvance(old, 0, new) = new - old))

\* Without a wrap the counter equals the last timer byte: here the bytes 254
\* and then 1 have been read.
C13_Witness ==
    /\ pc = "modify"
    /\ jc_raw.b2 = 1
    /\ timer_old = 1
    /\ timer_counter = 256

\* The first three frames sent to the host are the same frame.
ThreeTimesTheSame ==
    Len(host_sent) >= 3 /\ host_sent[2] = host_sent[1] /\ host_sent[3] = host_sent[1]

\* C14: the handshake goes in this order.  The initial report is sent to the
\* host three times and nothing else is sent meanwhile; only then the host's
\* reply is read, and it is forwarded to the peripheral; the frames read while
\* waiting for the device info are not forwarded; the device info (byte 1 =
\* 0x21) is forwarded once, as the fourth frame, and only then the main loop
\* is entered.
C14_HandshakeOrder ==
    /\ pc = "hs_initial" => (host_sent = <<>> /\ jc_sent = <<>>)
    /\ pc = "hs_send3" =>
           /\ i < 3 /\ Len(host_sent) = i /\ jc_sent = <<>>
           /\ \A k \in 1 .. Len(host_sent) : host_sent[k] = jc_data
    /\ pc \in {"hs_reply", "hs_fwd_reply"} =>
           (host_sent = <<jc_data, jc_data, jc_data>> /\ jc_sent = <<>>)
    /\ pc = "hs_info" =>
           (Len(host_sent) = 3 /\ ThreeTimesTheSame /\ jc_sent = <<reply>>)
    /\ (pc = "enter_main" \/ (pc = "recv_host" /\ events = <<>>)) =>
           /\ Len(host_sent) = 4 /\ ThreeTimesTheSame
           /\ host_sent[4] = jc_data /\ jc_data.b1 = 33
           /\ jc_sent = <<reply>> /\ reply \in HostFrames
    /\ pc \in LoopPcs => i = 3

C14_Witness ==
    /\ pc = "recv_host" /\ events = <<>>
    /\ host_sent[1].b1 = 48
    /\ host_sent[4].b1 = 33
    /\ host_sent[4] # host_sent[1]
    /\ jc_sent = <<reply>>

\* C15: with a tag image, the answer to a peripheral frame classified as
\* NFC/IR mode report is that frame with the bytes from offset 50 on replaced
\* by the bytes of the MCU as update_nfc_report left them, and it is the frame
\* sent to the host; bytes 0..49 are those of the peripheral frame.
C15_ModeReportKeepsFirst50 ==
    /\ (Spoofing /\ pc = "transition" /\ Classify(jc_raw) = "NfcModeReport") =>
           \E c \in 0 .. nfc_data : jc_data = [jc_raw EXCEPT !.ext = bytes_mcu(mcu, c)]
    /\ (Spoofing /\ Answered /\ Classify(jc_raw) = "NfcModeReport") =>
           /\ host_sent = <<jc_data>>
           /\ [jc_data EXCEPT !.ext = jc_raw.ext] = jc_raw
           /\ jc_data.ext # jc_raw.ext
           /\ jc_data.ext.operating_state = mcu.operating_state
           /\ jc_data.ext.current_action \in Actions

C15_Witness ==
    /\ Spoofing
    /\ Answered
    /\ Classify(jc_raw) = "NfcModeReport"
    /\ host_sent[1].b1 = 49
    /\ host_sent[1].body = jc_raw.body
    /\ host_sent[1].ext.chunk = 1
    /\ host_sent[1].ext.current_action = "READ_TAG_2"

\* The step answers a SetMcuState frame from a remembered request, and is not
\* the operator's interrupt.
StateFrameStep ==
    /\ pc = "modify" /\ Spoofing
    /\ Classify(jc_data) = "SetMcuState"
    /\ last_output_report # None
    /\ exc' # "KeyboardInterrupt"

\* The fixed marker bytes of a SetMcuState response.
HasStateMarkers(f) ==
    f.b1 = 33 /\ f.b3 = 142 /\ f.b14 = 128 /\ f.b15 = 34

\* C16: answering a SetMcuState frame with id 0x01 (Resume) sets the action to
\* NON and the state to STAND_BY; with id 0x00 (Suspend) it sets the state to
\* STAND_BY and keeps the action; any other id raises NotImplementedError, the
\* MCU stays as it is and no frame is sent to the host for that peripheral
\* frame, then or later.  The id is byte 12 of the remembered request.
C16_SetMcuState ==
    /\ [][(StateFrameStep /\ last_output_report.b12 = 1)
          => /\ mcu'.current_action = "NON" /\ mcu'.operating_state = "STAND_BY"
             /\ pc' = "transition" /\ exc' = "" /\ HasStateMarkers(jc_data')]_vars
    /\ [][(StateFrameStep /\ last_output_report.b12 = 0)
          => /\ mcu'.current_action = mcu.current_action
             /\ mcu'.operating_state = "STAND_BY"
             /\ pc' = "transition" /\ exc' = "" /\ HasStateMarkers(jc_data')]_vars
    /\ [][(StateFrameStep /\ last_output_report.b12 \notin {0, 1})
          => /\ exc' = "NotImplementedError" /\ pc' = "except"
             /\ mcu' = mcu /\ host_sent' = <<>>]_vars
    /\ [](exc = "NotImplementedError" => host_sent = <<>>)

C16_Witness ==
    /\ pc = "exited"
    /\ exc = "NotImplementedError"
    /\ Classify(jc_raw) = "SetMcuState"
    /\ last_output_report.b11 = 34
    /\ last_output_report.b12 = 2
    /\ host_sent = <<>>

\* The step is the remember-and-forward step of a host frame.
FwdStep == pc = "fwd_host" /\ pc' = "recv_jc" /\ reply # None

\* C17 as stated: a host frame is remembered exactly when its byte 1 is 0x11,
\* and the remembered frame is always absent or a frame with byte 1 = 0x11.
C17_RemembersMcuSubcommands ==
    /\ [](last_output_report = None \/ last_output_report.b1 = 17)
    /\ [][FwdStep => IF reply.b1 = 17
                     THEN last_output_report' = reply
                     ELSE last_output_report' = last_output_report]_vars

\* C17 amended: a host frame is remembered exactly when its byte 1 is 0x01 and
\* its byte 11 is 0x21 or 0x22, otherwise the remembered frame stays; the
\* remembered frame is always absent or such a frame, and nothing but that
\* step changes it.
C17_RemembersConfigAndStateRequests ==
    /\ [](\/ last_output_report = None
          \/ last_output_report.b1 = 1 /\ last_output_report.b11 \in {33, 34})
    /\ [][FwdStep => IF reply.b1 = 1 /\ reply.b11 \in {33, 34}
                     THEN last_output_report' = reply
                     ELSE last_output_report' = last_output_report]_vars
    /\ [][last_output_report' # last_output_report => FwdStep]_vars

C17_Witness ==
    /\ pc = "recv_jc"
    /\ IsMcuSubcommand(reply)
    /\ jc_sent = <<reply>>
    /\ last_output_report # None
    /\ last_output_report.b11 = 34

\* C18: with a tag image, when a peripheral frame classified as SetMcuConfig
\* or SetMcuState is about to be answered, a remembered host request exists
\* and is of the same kind: subcommand 0x21 for SetMcuConfig, 0x22 for
\* SetMcuState.
C18_RememberedRequestMatches ==
    (Spoofing /\ pc = "modify") =>
        /\ Classify(jc_data) = "SetMcuConfig" =>
               (last_output_report # None /\ last_output_report.b11 = 33)
        /\ Classify(jc_data) = "SetMcuState" =>
               (last_output_report # None /\ last_output_report.b11 = 34)

\* The step answers a SetMcuConfig frame from a remembered request, and is not
\* the operator's interrupt.
ConfigFrameStep ==
    /\ pc = "modify" /\ Spoofing
    /\ Classify(jc_data) = "SetMcuConfig"
    /\ last_output_report # None
    /\ exc' # "KeyboardInterrupt"

\* C19: the status block of a SetMcuConfig response shows the MCU as it was
\* before the config argument of the remembered request was applied: it is
\* the block of the MCU before the step, also when the step changes the
\* operating state, and that is the response sent to the host.
C19_StatusBlockBeforeConfig ==
    /\ [][ConfigFrameStep =>
            /\ jc_data'.body = bytes_mcu(mcu, 0)
            /\ jc_data'.body.operating_state = mcu.operating_state
            /\ (last_output_report.b13 = 0 /\ last_output_report.b14 = 4
                   => mcu'.operating_state = "NFC")
            /\ (last_output_report.b13 = 0 /\ last_output_report.b14 = 0
                   => mcu'.operating_state = "STAND_BY")]_vars
    /\ []((Spoofing /\ Answered /\ Classify(jc_raw) = "SetMcuConfig") =>
            /\ host_sent = <<jc_data>>
            /\ jc_data.body.operating_state = mcu_iter.operating_state
            /\ jc_data.body.current_action = mcu_iter.current_action)

C19_Witness ==
    /\ Spoofing
    /\ Answered
    /\ Classify(jc_raw) = "SetMcuConfig"
    /\ last_output_report.b11 = 33
    /\ last_output_report.b14 = 4
    /\ host_sent[1].body.operating_state = "STAND_BY"
    /\ mcu.operating_state = "NFC"

\* C20: in an iteration of the main loop, the host frame received, if any, is
\* sent to the peripheral once and unchanged before the peripheral frame is
\* read, and nothing else is sent to the peripheral; nothing is sent to the
\* host before the send step and exactly one frame, the answer to the frame
\* read in this iteration, at it; the next iteration starts only after that
\* send; and with no host frame the loop goes on to read the peripheral.  (An
\* iteration that an interrupt, a transport failure or a fault ends sends no
\* answer: the session is over then.)
C20_NoFrameLost ==
    /\ [](events # <<>> =>
            /\ jc_sent = IF reply # None /\ "fwd_host" \in Events THEN <<reply>> ELSE <<>>
            /\ ("recv_jc" \in Events /\ reply # None) => jc_sent = <<reply>>
            /\ host_sent = IF Answered THEN <<jc_data>> ELSE <<>>
            /\ Answered => ("recv_jc" \in Events /\ jc_raw \in JcFrames)
            /\ Len(SelectSeq(events, LAMBDA e : e = "recv_jc")) <= 1)
    /\ [][(pc = "recv_host" /\ pc' = "fwd_host" /\ events # <<>>) => Answered]_vars
    /\ [][(pc = "fwd_host" /\ reply = None /\ exc' # "KeyboardInterrupt")
          => (pc' = "recv_jc" /\ jc_sent' = <<>>)]_vars

C20_Witness ==
    /\ Spoofing
    /\ Answered
    /\ reply = None
    /\ jc_sent = <<>>
    /\ Classify(jc_raw) = "NfcModeReport"
    /\ Len(host_sent) = 1

====
